---- MODULE Spec2Model ----
(***************************************************************************)
(* Newsletter subscription service: the subscription table, the Postgres   *)
(* repository (list / add / delete / get_by_email), the connection pool,   *)
(* DefaultNewsletterService on top of it, and the Subscribe / UnSubscribe  *)
(* handlers of the tonic adapter, which call the repository directly.      *)
(*                                                                         *)
(* An email is a sequence of one-character strings, so that trim(),        *)
(* is_empty() and contains('@') are computed and not assumed.              *)
(* Every repository call has two suspension points (pool.get().await and   *)
(* the query's .await); each is one step of the task that runs the call.   *)
(***************************************************************************)
EXTENDS Integers, Sequences, FiniteSets, TLC

VARIABLES table, nextId, now, inUse, others, task, log, todo

vars == <<table, nextId, now, inUse, others, task, log, todo>>

----------------------------------------------------------------------------
(* Bounds *)

\* ids handed out by the surrogate-id sequence are 1..MaxId
MaxId == 3
\* longest emails list of a batch request
MaxBatch == 2
\* rows of the table a scenario starts from
MaxInitRows == 2
\* callers that run at once
NTasks == 2
\* the database clock reads 1..MaxClock
MaxClock == 2

\* bb8 pool size: Pool::builder().max_size(16)
PoolMax == 16

----------------------------------------------------------------------------
(* Emails *)

Blank0 == <<>>
Blank1 == <<" ">>
NoAt == <<"a">>
Lower == <<"a", "@">>
Upper == <<"A", "@">>

Emails == {Blank0, Blank1, NoAt, Lower, Upper}

\* emails used in the lists of the batch operations, which store what
\* they are given
BatchEmails == {Blank1, Lower, Upper}

\* emails used when tasks run concurrently
ConcEmails == {Lower}

Whitespace == {" ", "\t", "\n", "\r"}

\* str::trim_start
RECURSIVE TrimStart(_)
TrimStart(s) ==
    IF s = <<>> THEN <<>>
    ELSE IF Head(s) \in Whitespace THEN TrimStart(Tail(s))
    ELSE s

\* str::trim_end
RECURSIVE TrimEnd(_)
TrimEnd(s) ==
    IF s = <<>> THEN <<>>
    ELSE IF s[Len(s)] \in Whitespace THEN TrimEnd(SubSeq(s, 1, Len(s) - 1))
    ELSE s

\* str::trim
Trim(s) == TrimEnd(TrimStart(s))

\* str::is_empty
IsEmpty(s) == Len(s) = 0

\* str::contains(char)
Contains(s, c) == \E i \in 1..Len(s) : s[i] = c

----------------------------------------------------------------------------
(* Errors and results *)

NoErr == [ty |-> "none", payload |-> "none", msg |-> "none"]

\* anyhow::anyhow!("Email cannot be empty")
ErrEmpty ==
    [ty |-> "anyhow::Error", payload |-> "&str", msg |-> "Email cannot be empty"]

\* anyhow::anyhow!("Invalid email format")
ErrFormat ==
    [ty |-> "anyhow::Error", payload |-> "&str", msg |-> "Invalid email format"]

\* self.pool.get().await failed: Err(e.into())
ErrPool ==
    [ty |-> "anyhow::Error", payload |-> "bb8::RunError", msg |-> "pool"]

\* the query's execute/load/first failed: Err(e.into())
ErrQuery ==
    [ty |-> "anyhow::Error", payload |-> "diesel::result::Error", msg |-> "query"]

\* diesel::result::Error::NotFound, as a repository would report absence
ErrNotFound ==
    [ty |-> "anyhow::Error", payload |-> "diesel::result::Error", msg |-> "NotFound"]

\* a unique violation, as a repository would report a duplicate
ErrConflict ==
    [ty |-> "anyhow::Error", payload |-> "diesel::result::Error",
     msg |-> "UniqueViolation"]

\* tonic::Status::internal(format!("db error (add): {e}")) and the like:
\* the message ends with the text of the error e
StatusInternal(e) ==
    [ty |-> "tonic::Status", payload |-> "Code::Internal", msg |-> e.msg]

\* Result<()> / Result<bool> / Result<Vec<Newsletter>>
Ok(flag, items) == [ok |-> TRUE, err |-> NoErr, flag |-> flag, items |-> items]
OkUnit == Ok(FALSE, <<>>)
Err(e) == [ok |-> FALSE, err |-> e, flag |-> FALSE, items |-> <<>>]

----------------------------------------------------------------------------
(* The table and the SQL statements of the repository *)

\* a row as a statement writes it: NewNewsletter { email, active } has no
\* created_at, which is 0 until the column default fills it in
Row(id, email, active) ==
    [id |-> id, email |-> email, active |-> active, created_at |-> 0]

\* the database fills created_at of the rows that have none with its clock
StampDefault(tbl, at) ==
    {IF r.created_at = 0 THEN [r EXCEPT !.created_at = at] ELSE r : r \in tbl}

\* variant: a case-insensitive email column
FoldCase(s) == [i \in 1..Len(s) |-> IF s[i] = "A" THEN "a" ELSE s[i]]
RowsOfNoCase(tbl, email) == {r \in tbl : FoldCase(r.email) = FoldCase(email)}

\* the rows a filter newsletters::email.eq(email), or the unique index on
\* email, matches
RowsOf(tbl, email) == {r \in tbl : r.email = email}

\* domain object Newsletter { email, active }
Newsletter(r) == [email |-> r.email, active |-> r.active]

\* SELECT .. ORDER BY id DESC
RECURSIVE OrderByIdDesc(_)
OrderByIdDesc(rows) ==
    IF rows = {} THEN <<>>
    ELSE LET m == CHOOSE r \in rows : \A s \in rows : s.id <= r.id
         IN  <<m>> \o OrderByIdDesc(rows \ {m})

\* variant: a list that leaves out the oldest row
ListRowsShort(tbl) ==
    LET rows == OrderByIdDesc(tbl)
    IN  [i \in 1..(Len(rows) - 1) |-> Newsletter(rows[i])]

\* variant: ORDER BY id ASC
ListRowsAsc(tbl) ==
    LET rows == OrderByIdDesc(tbl)
    IN  [i \in 1..Len(rows) |-> Newsletter(rows[Len(rows) + 1 - i])]

\* PostgresNewsletterRepository::list, the value of Ok(..)
ListRows(tbl) ==
    LET rows == OrderByIdDesc(tbl)
    IN  [i \in 1..Len(rows) |-> Newsletter(rows[i])]

\* A statement yields the new table, the next id of the sequence and the
\* number of rows it affected (n).

\* variant: a plain INSERT on a table without the unique index
InsertAlways(tbl, nid, email) ==
    [tbl |-> tbl \cup {Row(nid, email, TRUE)}, nid |-> nid + 1, n |-> 1]

\* variant: ON CONFLICT (email) DO UPDATE SET created_at = DEFAULT
InsertOrTouch(tbl, nid, email) ==
    IF RowsOf(tbl, email) # {}
    THEN [tbl |-> {IF r.email = email THEN [r EXCEPT !.created_at = 0] ELSE r :
                      r \in tbl},
          nid |-> nid, n |-> 1]
    ELSE [tbl |-> tbl \cup {Row(nid, email, TRUE)}, nid |-> nid + 1, n |-> 1]

\* variant: ON CONFLICT (email) DO UPDATE SET active = true
InsertOrActivate(tbl, nid, email) ==
    IF RowsOf(tbl, email) # {}
    THEN [tbl |-> {IF r.email = email THEN [r EXCEPT !.active = TRUE] ELSE r :
                      r \in tbl},
          nid |-> nid, n |-> 1]
    ELSE [tbl |-> tbl \cup {Row(nid, email, TRUE)}, nid |-> nid + 1, n |-> 1]

\* INSERT INTO newsletters (email, active) VALUES ($1, true)
\* ON CONFLICT (email) DO NOTHING
InsertOnConflictDoNothing(tbl, nid, email) ==
    IF RowsOf(tbl, email) # {}
    THEN [tbl |-> tbl, nid |-> nid, n |-> 0]
    ELSE [tbl |-> tbl \cup {Row(nid, email, TRUE)}, nid |-> nid + 1, n |-> 1]

\* variant: DELETE FROM newsletters, without the filter
DeleteEvery(tbl, nid, email) ==
    [tbl |-> {}, nid |-> nid, n |-> Cardinality(tbl)]

\* variant: a soft delete, UPDATE newsletters SET active = false
DeleteSoft(tbl, nid, email) ==
    [tbl |-> {IF r.email = email THEN [r EXCEPT !.active = FALSE] ELSE r :
                 r \in tbl},
     nid |-> nid, n |-> Cardinality(RowsOf(tbl, email))]

\* DELETE FROM newsletters WHERE email = $1
DeleteWhereEmail(tbl, nid, email) ==
    [tbl |-> tbl \ RowsOf(tbl, email), nid |-> nid,
     n |-> Cardinality(RowsOf(tbl, email))]

\* a SELECT changes nothing
Select(tbl, nid) == [tbl |-> tbl, nid |-> nid, n |-> 0]

\* variant: an add that reports the conflict
AddResultStrict(n) == IF n = 0 THEN Err(ErrConflict) ELSE OkUnit

\* add: Ok(_) => Ok(())
AddResult(n) == OkUnit

\* variant: a delete that reports zero rows affected
DeleteResultStrict(n) == IF n = 0 THEN Err(ErrNotFound) ELSE OkUnit

\* delete: Ok(rows_affected) => Ok(())
DeleteResult(n) == OkUnit

\* variant: .first(..) without .optional()
StatusResultNoOptional(found) ==
    IF found = {} THEN Err(ErrNotFound)
    ELSE Ok((CHOOSE x \in found : TRUE).active, <<>>)

\* get_by_email: .first(..).optional() gives Ok(None) for no row, and the
\* Service's match turns Some(newsletter) into Ok(newsletter.active) and
\* None into Ok(false); found is {} or {the row}
StatusResult(found) ==
    IF found = {} THEN Ok(FALSE, <<>>)
    ELSE Ok((CHOOSE x \in found : TRUE).active, <<>>)

----------------------------------------------------------------------------
(* Requests of DefaultNewsletterService *)

Req(op, emails, active) == [op |-> op, emails |-> emails, active |-> active]

BatchLists(E) == UNION {[1..n -> E \cap BatchEmails] : n \in 0..MaxBatch}

Requests(E) ==
    {Req(op, <<e>>, TRUE) :
        op \in {"subscribe", "unsubscribe", "get_subscription_status"}, e \in E}
    \cup {Req("list_newsletters", <<>>, TRUE)}
    \cup {Req("update_subscription_status", es, a) :
            es \in BatchLists(E), a \in BOOLEAN}
    \cup {Req("delete_subscriptions", es, TRUE) : es \in BatchLists(E)}

\* requests of MyNewsletterService, the tonic RPC adapter
RpcOps == {"rpc.get", "rpc.subscribe", "rpc.un_subscribe"}

RpcRequests(E) == {Req(op, <<e>>, TRUE) : op \in RpcOps, e \in E}

\* variant: unsubscribe with the '@' check of subscribe
ValidateAtBoth(r) ==
    IF r.op \in {"subscribe", "unsubscribe"}
    THEN IF IsEmpty(Trim(r.emails[1])) THEN ErrEmpty
         ELSE IF ~Contains(r.emails[1], "@") THEN ErrFormat
         ELSE NoErr
    ELSE NoErr

\* variant: subscribe without the '@' check
ValidateBlankOnly(r) ==
    IF r.op \in {"subscribe", "unsubscribe"} /\ IsEmpty(Trim(r.emails[1]))
    THEN ErrEmpty ELSE NoErr

\* the checks a Service operation makes before it reaches the repository
Validate(r) ==
    CASE r.op = "subscribe" ->
            IF IsEmpty(Trim(r.emails[1])) THEN ErrEmpty
            ELSE IF ~Contains(r.emails[1], "@") THEN ErrFormat
            ELSE NoErr
      [] r.op = "unsubscribe" ->
            IF IsEmpty(Trim(r.emails[1])) THEN ErrEmpty ELSE NoErr
      [] OTHER -> NoErr

\* variant: update_subscription_status that ignores `active`
RepoOpNoFlag(r) ==
    CASE r.op \in {"subscribe", "update_subscription_status"} -> "add"
      [] r.op \in {"unsubscribe", "delete_subscriptions"} -> "delete"
      [] r.op = "get_subscription_status" -> "get_by_email"
      [] r.op = "list_newsletters" -> "list"

\* the repository method a Service operation calls for each of its items
RepoOp(r) ==
    CASE r.op = "subscribe" -> "add"
      [] r.op = "unsubscribe" -> "delete"
      [] r.op = "get_subscription_status" -> "get_by_email"
      [] r.op = "list_newsletters" -> "list"
      [] r.op = "update_subscription_status" ->
            IF r.active THEN "add" ELSE "delete"
      [] r.op = "delete_subscriptions" -> "delete"
      [] r.op = "rpc.get" -> "list"
      [] r.op = "rpc.subscribe" -> "add"
      [] r.op = "rpc.un_subscribe" -> "delete"

\* variant: a loop that stops one item early
NCallsShort(r) == IF r.op = "list_newsletters" THEN 1 ELSE
    IF Len(r.emails) > 1 THEN Len(r.emails) - 1 ELSE Len(r.emails)

\* number of repository calls of a request that meets no error
NCalls(r) == IF r.op = "list_newsletters" THEN 1 ELSE Len(r.emails)

----------------------------------------------------------------------------
(* Tasks *)

NoReq == Req("none", <<>>, TRUE)

\* pc: "idle", "acquire" (awaiting pool.get()), "query" (awaiting the query)
\* pos: the repository call in progress; q: the statements sent to the
\* database so far; t0: the table when the call began
IdleTask == [pc |-> "idle", req |-> NoReq, pos |-> 0, q |-> 0, t0 |-> {}]

Tasks == DOMAIN task

\* what a finished call leaves for its caller
\*   calls: repository calls issued; queries: statements sent to the
\*   database; before/after: the table when the call began and when it
\*   returned
Entry(t, r, res, calls, queries, before, after) ==
    [task |-> t, req |-> r, res |-> res, calls |-> calls, queries |-> queries,
     before |-> before, after |-> after]

\* the caller's record of a call that returned; a caller that keeps no
\* record (keep = FALSE) leaves the log as it is
Record(base, keep, entry) == IF keep THEN Append(base, entry) ELSE base

\* a Service operation is called on task t; base is the caller's log
Start(t, r, base, keep) ==
    /\ task[t].pc = "idle"
    /\ IF Validate(r) # NoErr
       THEN /\ log' = Record(base, keep,
                             Entry(t, r, Err(Validate(r)), 0, 0, table, table))
            /\ UNCHANGED task
       ELSE IF NCalls(r) = 0
       THEN /\ log' = Record(base, keep,
                             Entry(t, r, OkUnit, 0, 0, table, table))
            /\ UNCHANGED task
       ELSE /\ task' = [task EXCEPT ![t] =
                            [pc |-> "acquire", req |-> r, pos |-> 1, q |-> 0,
                             t0 |-> IF keep THEN table ELSE {}]]
            /\ log' = base
    /\ UNCHANGED <<table, nextId, now, inUse, others>>

\* a client sends an RPC; the handler goes straight to repo::add / delete
CallRpc(t, E) ==
    /\ \E r \in RpcRequests(E) : Start(t, r, <<>>, TRUE)
    /\ UNCHANGED todo

\* any caller, any request
Call(t, E, keep) ==
    /\ \E r \in Requests(E) : Start(t, r, <<>>, keep)
    /\ UNCHANGED todo

\* a caller that works through a fixed list of requests
CallNext(t) ==
    /\ todo # <<>>
    /\ Start(t, Head(todo), log, TRUE)
    /\ todo' = Tail(todo)

\* variant: a Service that reports every repository error as its own
ReturnedTranslated(r, res) ==
    IF ~res.ok THEN Err(StatusInternal(res.err)) ELSE res

\* what the caller gets: a Service operation hands the repository's
\* result on; an RPC handler turns an error into Status::internal
Returned(r, res) ==
    IF r.op \in RpcOps /\ ~res.ok THEN Err(StatusInternal(res.err)) ELSE res

Finish(t, res, queries, after, keep) ==
    /\ log' = Record(log, keep,
                     Entry(t, task[t].req, Returned(task[t].req, res),
                           task[t].pos, queries, task[t].t0, after))
    /\ task' = [task EXCEPT ![t] = IdleTask]

\* variant: a pool without max_size
PoolUnbounded(n) == TRUE

\* the pool hands out a connection while fewer than max_size are out
PoolHasFree(n) == n < PoolMax

\* variant: a batch that runs its loop inside one process-wide lock
BlockedByBatch(t) ==
    \E u \in Tasks \ {t} :
        /\ task[u].pc # "idle"
        /\ task[u].req.op \in {"update_subscription_status", "delete_subscriptions"}

\* what a repository call waits for besides the pool: nothing; no lock is
\* taken and no transaction spans the loop of a batch
Blocked(t) == FALSE

\* pool.get().await returns a connection
AcquireOk(t) ==
    /\ task[t].pc = "acquire"
    /\ ~Blocked(t)
    /\ PoolHasFree(inUse)
    /\ inUse' = inUse + 1
    /\ task' = [task EXCEPT ![t].pc = "query"]
    /\ UNCHANGED <<table, nextId, now, others, log, todo>>

\* variant: a failed pool.get() reported as the result for no row
AcquireErrAsNone == OkUnit

\* Err(e) => return Err(e.into()) of the pool.get() match
AcquireErr == Err(ErrPool)

\* pool.get().await fails; no statement is sent
AcquireFail(t, keep) ==
    /\ task[t].pc = "acquire"
    /\ Finish(t, AcquireErr, task[t].q, table, keep)
    /\ UNCHANGED <<table, nextId, now, inUse, others, todo>>

\* variant: the list walked from its end
ItemAtReversed(r, pos) ==
    IF r.emails = <<>> THEN <<>> ELSE r.emails[Len(r.emails) + 1 - pos]

\* the email of the repository call in progress: `for email in emails`
ItemAt(r, pos) == IF r.emails = <<>> THEN <<>> ELSE r.emails[pos]

\* the statement of a repository call
Statement(r, tbl, nid, e) ==
    CASE RepoOp(r) = "add" -> InsertOnConflictDoNothing(tbl, nid, e)
      [] RepoOp(r) = "delete" -> DeleteWhereEmail(tbl, nid, e)
      [] OTHER -> Select(tbl, nid)

\* variant: a Get that looks for any active item
GetActiveAnyEmail(items, email) ==
    \E i \in DOMAIN items : items[i].active

\* items.iter().any(|n| n.email == email && n.active)
GetActive(items, email) ==
    \E i \in DOMAIN items : items[i].email = email /\ items[i].active

\* GetResponse { email, active }
GetResponse(email, active) ==
    Ok(active, <<[email |-> email, active |-> active]>>)

\* what the operation returns once its last repository call is done
Value(r, out, found) ==
    CASE r.op = "rpc.get" ->
            GetResponse(r.emails[1], GetActive(ListRows(out.tbl), r.emails[1]))
      [] RepoOp(r) = "list" -> Ok(FALSE, ListRows(out.tbl))
      [] RepoOp(r) = "get_by_email" -> StatusResult(found)
      [] RepoOp(r) = "add" -> AddResult(out.n)
      [] RepoOp(r) = "delete" -> DeleteResult(out.n)

\* .first(): one of the rows that match, none when there is none
First(rows) == IF rows = {} THEN {{}} ELSE {{y} : y \in rows}

\* the statement runs; the connection is dropped on return
QueryOk(t, keep) ==
    /\ task[t].pc = "query"
    /\ LET r == task[t].req
           e == ItemAt(r, task[t].pos)
           raw == Statement(r, table, nextId, e)
           out == [raw EXCEPT !.tbl = StampDefault(raw.tbl, now)]
           res == IF RepoOp(r) = "add" THEN AddResult(out.n)
                  ELSE IF RepoOp(r) = "delete" THEN DeleteResult(out.n)
                  ELSE OkUnit
       IN  /\ out.nid <= MaxId + 1
           /\ table' = out.tbl
           /\ nextId' = out.nid
           /\ inUse' = inUse - 1
           /\ IF ~res.ok
              THEN Finish(t, res, task[t].q + 1, out.tbl, keep)
              ELSE IF task[t].pos < NCalls(r)
              THEN /\ task' = [task EXCEPT ![t].pc = "acquire",
                                           ![t].pos = task[t].pos + 1,
                                           ![t].q = task[t].q + 1]
                   /\ UNCHANGED log
              ELSE \E x \in First(RowsOf(table, e)) :
                       Finish(t, Value(r, out, x), task[t].q + 1, out.tbl, keep)
    /\ UNCHANGED <<now, others, todo>>

\* the statement fails: return Err(e.into()); the connection is dropped
QueryFail(t, keep) ==
    /\ task[t].pc = "query"
    /\ inUse' = inUse - 1
    /\ Finish(t, Err(ErrQuery), task[t].q + 1, table, keep)
    /\ UNCHANGED <<table, nextId, now, others, todo>>

\* further callers of the pool's clones, counted and not named: one of
\* them gets a connection for its query
OtherAcquire ==
    /\ PoolHasFree(inUse)
    /\ inUse' = inUse + 1
    /\ others' = others + 1
    /\ UNCHANGED <<table, nextId, now, task, log, todo>>

\* one of them is done with its query and drops the connection
OtherRelease ==
    /\ others > 0
    /\ inUse' = inUse - 1
    /\ others' = others - 1
    /\ UNCHANGED <<table, nextId, now, task, log, todo>>

\* the database clock moves on
Tick ==
    /\ now < MaxClock
    /\ now' = now + 1
    /\ UNCHANGED <<table, nextId, inUse, others, task, log, todo>>

----------------------------------------------------------------------------
(* Specifications *)

InitStore ==
    /\ table = {}
    /\ nextId = 1
    /\ now = 1
    /\ inUse = 0
    /\ others = 0
    /\ log = <<>>

\* one caller at a time, any requests
Init ==
    /\ InitStore
    /\ task = [t \in {1} |-> IdleTask]
    /\ todo = <<>>

Next ==
    \E t \in Tasks :
        \/ Call(t, Emails, TRUE)
        \/ AcquireOk(t)
        \/ AcquireFail(t, TRUE)
        \/ QueryOk(t, TRUE)
        \/ QueryFail(t, TRUE)

Spec == Init /\ [][Next]_vars

\* NTasks callers at once, any requests over ConcEmails; no record is kept
InitConc ==
    /\ InitStore
    /\ task = [t \in 1..NTasks |-> IdleTask]
    /\ todo = <<>>

NextConc ==
    \E t \in Tasks :
        \/ Call(t, ConcEmails, FALSE)
        \/ AcquireOk(t)
        \/ AcquireFail(t, FALSE)
        \/ QueryOk(t, FALSE)
        \/ QueryFail(t, FALSE)

SpecConc == InitConc /\ [][NextConc]_vars

\* one client at a time sends any Subscribe / UnSubscribe RPC
NextRpc ==
    \E t \in Tasks :
        \/ CallRpc(t, Emails)
        \/ AcquireOk(t)
        \/ AcquireFail(t, TRUE)
        \/ QueryOk(t, TRUE)
        \/ QueryFail(t, TRUE)

SpecRpc == Init /\ [][NextRpc]_vars

\* NTasks callers make single repository calls while further callers
\* take and drop connections of the same pool
PoolRequests == {r \in Requests(ConcEmails) : Len(r.emails) <= 1}

CallPool(t) ==
    /\ \E r \in PoolRequests : Start(t, r, <<>>, FALSE)
    /\ UNCHANGED todo

NextPool ==
    \/ OtherAcquire
    \/ OtherRelease
    \/ \E t \in Tasks :
        \/ CallPool(t)
        \/ AcquireOk(t)
        \/ AcquireFail(t, FALSE)
        \/ QueryOk(t, FALSE)
        \/ QueryFail(t, FALSE)

SpecPool == InitConc /\ [][NextPool]_vars

\* the tables the service can have built: every row active, one row per
\* email, ids distinct and below the next id of the sequence
Tables(nid) ==
    {StampDefault(tbl, 1) :
        tbl \in {x \in SUBSET {Row(i, e, TRUE) :
                                  i \in 1..(nid - 1), e \in BatchEmails} :
                    /\ Cardinality(x) <= MaxInitRows
                    /\ \A r, s \in x : (r.id = s.id \/ r.email = s.email)
                                         => r = s}}

\* the same request twice in a row
Twice == {<<r, r>> : r \in Requests(Emails)}

\* a request that writes, then the status of its first email, then the list
ThenRead ==
    {<<r, Req("get_subscription_status", <<r.emails[1]>>, TRUE),
       Req("list_newsletters", <<>>, TRUE)>> :
        r \in {x \in Requests(Emails) :
                 /\ x.op \notin {"get_subscription_status", "list_newsletters"}
                 /\ x.emails # <<>>}}

\* the list, a subscribe, the list again
ListAround ==
    {<<Req("list_newsletters", <<>>, TRUE), Req("subscribe", <<e>>, TRUE),
       Req("list_newsletters", <<>>, TRUE)>> : e \in Emails}

\* subscribe, status, list, unsubscribe, status, list for one email
EndToEnd(e) ==
    <<Req("subscribe", <<e>>, TRUE),
      Req("get_subscription_status", <<e>>, TRUE),
      Req("list_newsletters", <<>>, TRUE),
      Req("unsubscribe", <<e>>, TRUE),
      Req("get_subscription_status", <<e>>, TRUE),
      Req("list_newsletters", <<>>, TRUE)>>

\* unsubscribe, subscribe again, status, list for one email
Resubscribe(e) ==
    <<Req("unsubscribe", <<e>>, TRUE),
      Req("subscribe", <<e>>, TRUE),
      Req("get_subscription_status", <<e>>, TRUE),
      Req("list_newsletters", <<>>, TRUE)>>

Scripts ==
    Twice \cup ThenRead \cup ListAround \cup {EndToEnd(e) : e \in Emails}
    \cup {Resubscribe(e) : e \in Emails}

\* one caller works through a script, starting from any table
InitScript ==
    /\ nextId \in 1..(MaxInitRows + 1)
    /\ table \in Tables(nextId)
    /\ now = 1
    /\ inUse = 0
    /\ others = 0
    /\ log = <<>>
    /\ task = [t \in {1} |-> IdleTask]
    /\ todo \in Scripts

NextScript ==
    \E t \in Tasks :
        \/ CallNext(t)
        \/ AcquireOk(t)
        \/ AcquireFail(t, TRUE)
        \/ QueryOk(t, TRUE)
        \/ QueryFail(t, TRUE)

SpecScript == InitScript /\ [][NextScript]_vars

\* NTasks callers each make one of the same subscribe calls, in any
\* interleaving, starting from any table
SameSubscribes == {[i \in 1..NTasks |-> Req("subscribe", <<e>>, TRUE)] : e \in Emails}

InitRace ==
    /\ nextId \in 1..(MaxInitRows + 1)
    /\ table \in Tables(nextId)
    /\ now = 1
    /\ inUse = 0
    /\ others = 0
    /\ log = <<>>
    /\ task = [t \in 1..NTasks |-> IdleTask]
    /\ todo \in SameSubscribes

NextRace ==
    \E t \in Tasks :
        \/ CallNext(t)
        \/ AcquireOk(t)
        \/ AcquireFail(t, TRUE)
        \/ QueryOk(t, TRUE)
        \/ QueryFail(t, TRUE)

SpecRace == InitRace /\ [][NextRace]_vars

\* the tables any writer of the schema can have left, a soft-delete
\* representation included: active and created_at of each row are free
AnyTables(nid, at) ==
    {{[r EXCEPT !.active = f[r.id][1], !.created_at = f[r.id][2]] : r \in tbl} :
        tbl \in Tables(nid), f \in [1..(nid - 1) -> BOOLEAN \X (1..at)]}

\* one call that reaches the repository add
Adds ==
    {<<r>> : r \in {x \in Requests(Emails) \cup RpcRequests(Emails) :
                       x.op \in {"subscribe", "rpc.subscribe"}
                       \/ (x.op = "update_subscription_status" /\ x.active)}}

\* one caller makes one adding call on any such table while the clock runs
InitAdd ==
    /\ nextId \in 1..(MaxInitRows + 1)
    /\ now \in 1..MaxClock
    /\ table \in AnyTables(nextId, now)
    /\ inUse = 0
    /\ others = 0
    /\ log = <<>>
    /\ task = [t \in {1} |-> IdleTask]
    /\ todo \in Adds

NextAdd ==
    \/ Tick
    \/ \E t \in Tasks :
        \/ CallNext(t)
        \/ AcquireOk(t)
        \/ AcquireFail(t, TRUE)
        \/ QueryOk(t, TRUE)
        \/ QueryFail(t, TRUE)

SpecAdd == InitAdd /\ [][NextAdd]_vars

\* a batch that subscribes two emails, a batch that unsubscribes the same
\* two, and a list, each made by a caller of its own
BatchRace ==
    {<<Req("update_subscription_status", es, TRUE),
       Req("update_subscription_status", es, FALSE),
       Req("list_newsletters", <<>>, TRUE)>> : es \in [1..2 -> {Lower, Upper}]}

InitBatch ==
    /\ InitStore
    /\ task = [t \in 1..(NTasks + 1) |-> IdleTask]
    /\ todo \in BatchRace

NextBatch ==
    \E t \in Tasks :
        \/ CallNext(t)
        \/ AcquireOk(t)
        \/ AcquireFail(t, TRUE)
        \/ QueryOk(t, TRUE)
        \/ QueryFail(t, TRUE)

SpecBatch == InitBatch /\ [][NextBatch]_vars

\* a finite set of requests: a batch that subscribes two emails, then
\* NTasks - 1 requests that insert nothing
LiveRequests ==
    {Req("delete_subscriptions", <<Upper, Lower>>, TRUE),
     Req("get_subscription_status", <<Lower>>, TRUE),
     Req("list_newsletters", <<>>, TRUE)}

LiveScripts ==
    {<<Req("update_subscription_status", <<Lower, Upper>>, TRUE)>> \o rest :
        rest \in [1..(NTasks - 1) -> LiveRequests]}

\* NTasks callers start while PoolMax further requests hold every
\* connection of the pool
InitLive ==
    /\ table = {}
    /\ nextId = 1
    /\ now = 1
    /\ inUse = PoolMax
    /\ others = PoolMax
    /\ log = <<>>
    /\ task = [t \in 1..NTasks |-> IdleTask]
    /\ todo \in LiveScripts

\* no failure cuts a wait short and no further request arrives
NextLive ==
    \/ OtherRelease
    \/ \E t \in Tasks :
        \/ CallNext(t)
        \/ AcquireOk(t)
        \/ QueryOk(t, TRUE)

\* the runtime polls every ready task, the pool hands a free connection
\* to a waiter, and queries finish
FairLive ==
    /\ WF_vars(OtherRelease)
    /\ \A t \in 1..NTasks :
          /\ WF_vars(CallNext(t))
          /\ WF_vars(AcquireOk(t))
          /\ WF_vars(QueryOk(t, TRUE))

SpecLive == InitLive /\ [][NextLive]_vars /\ FairLive

\* demo_functionality(test_email): its five Service calls, each made
\* whatever the one before returned
Demo(e) ==
    <<Req("subscribe", <<e>>, TRUE),
      Req("get_subscription_status", <<e>>, TRUE),
      Req("list_newsletters", <<>>, TRUE),
      Req("unsubscribe", <<e>>, TRUE),
      Req("get_subscription_status", <<e>>, TRUE)>>

\* variant: a demo that returns the first error of its steps
DemoResultStrict(lg) ==
    IF \E i \in DOMAIN lg : ~lg[i].res.ok
    THEN Err(lg[CHOOSE i \in DOMAIN lg :
                   ~lg[i].res.ok /\ \A j \in 1..(i - 1) : lg[j].res.ok].res.err)
    ELSE Ok(FALSE, [i \in DOMAIN lg |-> lg[i].res.ok])

\* Ok(demo_log): the log says of each step whether it succeeded; lg holds
\* what the five calls returned
DemoResult(lg) == Ok(FALSE, [i \in DOMAIN lg |-> lg[i].res.ok])

InitDemo ==
    /\ nextId \in 1..(MaxInitRows + 1)
    /\ table \in Tables(nextId)
    /\ now = 1
    /\ inUse = 0
    /\ others = 0
    /\ log = <<>>
    /\ task = [t \in {1} |-> IdleTask]
    /\ todo \in {Demo(e) : e \in Emails}

\* the five steps are done: demo_functionality returns
DemoReturn(t) ==
    /\ todo = <<>>
    /\ Len(log) = 5
    /\ task[t].pc = "idle"
    /\ log' = Append(log,
                     Entry(t, Req("demo_functionality", log[1].req.emails, TRUE),
                           DemoResult(log),
                           log[1].calls + log[2].calls + log[3].calls
                               + log[4].calls + log[5].calls,
                           log[1].queries + log[2].queries + log[3].queries
                               + log[4].queries + log[5].queries,
                           log[1].before, table))
    /\ UNCHANGED <<table, nextId, now, inUse, others, task, todo>>

NextDemo ==
    \E t \in Tasks :
        \/ CallNext(t)
        \/ DemoReturn(t)
        \/ AcquireOk(t)
        \/ AcquireFail(t, TRUE)
        \/ QueryOk(t, TRUE)
        \/ QueryFail(t, TRUE)

SpecDemo == InitDemo /\ [][NextDemo]_vars

\* the status of an email asked of the Service and then of the RPC adapter
GetBoth ==
    {<<Req("get_subscription_status", <<e>>, TRUE), Req("rpc.get", <<e>>, TRUE)>> :
        e \in Emails}

\* one call of any kind
OneCall == {<<r>> : r \in Requests(Emails) \cup RpcRequests(Emails)}

\* one caller makes one call, or asks the status twice, on any table a
\* writer of the schema can have left, while the clock runs
InitAny ==
    /\ nextId \in 1..(MaxInitRows + 1)
    /\ now \in 1..MaxClock
    /\ table \in AnyTables(nextId, now)
    /\ inUse = 0
    /\ others = 0
    /\ log = <<>>
    /\ task = [t \in {1} |-> IdleTask]
    /\ todo \in OneCall \cup GetBoth

NextAny ==
    \/ Tick
    \/ \E t \in Tasks :
        \/ CallNext(t)
        \/ AcquireOk(t)
        \/ AcquireFail(t, TRUE)
        \/ QueryOk(t, TRUE)
        \/ QueryFail(t, TRUE)

SpecAny == InitAny /\ [][NextAny]_vars

----------------------------------------------------------------------------
(* Vocabulary of the properties *)

Entries == {log[i] : i \in DOMAIN log}

\* the call met a pool or query failure
Fault(en) == en.res.err \in {ErrPool, ErrQuery}

\* the RPC met a pool or query failure
RpcFault(en) ==
    en.res.err \in {StatusInternal(ErrPool), StatusInternal(ErrQuery)}

EmailsIn(tbl) == {r.email : r \in tbl}

Listed(es, k) == {es[j] : j \in 1..k}

AllWhitespace(e) == \A i \in 1..Len(e) : e[i] \in Whitespace

HasAt(e) == \E i \in 1..Len(e) : e[i] = "@"

Single(op, e) == Req(op, <<e>>, TRUE)

\* the rows of the emails outside S, and what list() shows of them
RowsOutside(tbl, S) == {r \in tbl : r.email \notin S}
ListOutside(tbl, S) == SelectSeq(ListRows(tbl), LAMBDA x : x.email \notin S)

\* caller t is inside a batch, between two of its per-email steps
BetweenSteps(t) ==
    /\ task[t].req.op \in {"update_subscription_status", "delete_subscriptions"}
    /\ task[t].pc = "acquire"
    /\ task[t].pos >= 2

\* the callers that hold a connection
Holders == {t \in Tasks : task[t].pc = "query"}

\* every call has been made and has returned
AllReturned == todo = <<>> /\ \A t \in Tasks : task[t].pc = "idle"

----------------------------------------------------------------------------
(* C1 *)

\* C1: in every state reached by any interleaving of subscribe, unsubscribe,
\* update_subscription_status and delete_subscriptions calls, the table
\* holds at most one row per email.
C1_OneRowPerEmail ==
    \A r, s \in table : r.email = s.email => r = s

\* every task has run its first add of Lower and is about to run its
\* second, and one row for Lower is there
C1_Witness ==
    /\ \A t \in Tasks :
          /\ task[t].req = Req("update_subscription_status", <<Lower, Lower>>, TRUE)
          /\ task[t].pos = 2
          /\ task[t].pc = "query"
    /\ Cardinality(RowsOf(table, Lower)) = 1

----------------------------------------------------------------------------
(* C2 *)

\* C2: subscribe is idempotent: for a valid email and any starting table,
\* two subscribe calls in a row that meet no storage failure both return
\* Ok, the second leaves the table as the first left it, and the table then
\* holds exactly one row for the email, with active = true.
C2_SubscribeIdempotent ==
    (/\ Len(log) = 2
     /\ log[1].req = log[2].req
     /\ log[1].req.op = "subscribe"
     /\ ~AllWhitespace(log[1].req.emails[1])
     /\ HasAt(log[1].req.emails[1])
     /\ ~Fault(log[1])
     /\ ~Fault(log[2]))
    => /\ log[1].res.ok
       /\ log[2].res.ok
       /\ log[2].after = log[1].after
       /\ Cardinality(RowsOf(log[2].after, log[1].req.emails[1])) = 1
       /\ \A r \in RowsOf(log[2].after, log[1].req.emails[1]) : r.active

\* subscribe(Lower) twice on a table that had another row and none for Lower
C2_Witness ==
    /\ Len(log) = 2
    /\ log[1].req = Single("subscribe", Lower)
    /\ log[2].req = Single("subscribe", Lower)
    /\ log[1].res.ok
    /\ log[2].res.ok
    /\ RowsOf(log[1].before, Lower) = {}
    /\ RowsOf(log[1].before, Upper) # {}

----------------------------------------------------------------------------
(* C3 *)

\* C3: after a successful unsubscribe(email), from any starting table, the
\* email has no row, get_subscription_status(email) returns Ok(false) and
\* the email is not in the result of list().
C3_UnsubscribeDeletes ==
    (/\ Len(log) >= 1
     /\ log[1].req.op = "unsubscribe"
     /\ log[1].res.ok)
    => LET e == log[1].req.emails[1]
       IN  /\ RowsOf(log[1].after, e) = {}
           /\ (Len(log) >= 2 /\ log[2].req.emails = <<e>> /\ log[2].res.ok)
                 => log[2].res.flag = FALSE
           /\ (Len(log) >= 3 /\ log[3].res.ok)
                 => \A i \in DOMAIN log[3].res.items :
                        log[3].res.items[i].email # e

\* unsubscribe(Lower) removed a row, then the status and a non-empty list
\* were read
C3_Witness ==
    /\ Len(log) = 3
    /\ log[1].req = Single("unsubscribe", Lower)
    /\ log[1].res.ok
    /\ RowsOf(log[1].before, Lower) # {}
    /\ log[2].req = Single("get_subscription_status", Lower)
    /\ log[2].res.ok
    /\ log[3].res.ok
    /\ Len(log[3].res.items) = 1

----------------------------------------------------------------------------
(* C4 *)

\* C4: unsubscribe, or a repository delete made for a one-email batch, for
\* an email that has no row returns Ok unless the pool or the query fails,
\* and leaves the table unchanged.
C4_AbsenceSafeDelete ==
    \A en \in Entries :
        (/\ \/ en.req.op = "unsubscribe" /\ ~AllWhitespace(en.req.emails[1])
            \/ en.req.op = "delete_subscriptions" /\ Len(en.req.emails) = 1
            \/ /\ en.req.op = "update_subscription_status"
               /\ ~en.req.active
               /\ Len(en.req.emails) = 1
         /\ RowsOf(en.before, en.req.emails[1]) = {})
        => /\ en.res.ok \/ Fault(en)
           /\ en.after = en.before

\* unsubscribe(Lower) returned Ok on a table with a row, none of it Lower's
C4_Witness ==
    \E en \in Entries :
        /\ en.req = Single("unsubscribe", Lower)
        /\ en.res.ok
        /\ en.calls = 1
        /\ en.before # {}
        /\ RowsOf(en.before, Lower) = {}

----------------------------------------------------------------------------
(* C5 *)

\* C5: get_subscription_status(email) that meets no pool or query failure
\* returns Ok: false when the email has no row, else the active value of
\* its row; and it never changes the table.
C5_StatusLookup ==
    \A en \in Entries :
        en.req.op = "get_subscription_status"
        => /\ en.after = en.before
           /\ table = en.before
           /\ ~Fault(en)
                => /\ en.res.ok
                   /\ RowsOf(en.before, en.req.emails[1]) = {}
                         => en.res.flag = FALSE
                   /\ \A r \in RowsOf(en.before, en.req.emails[1]) :
                         en.res.flag = r.active

\* the status of an email without a row was read from a table with a row
C5_Witness ==
    \E en \in Entries :
        /\ en.req = Single("get_subscription_status", Lower)
        /\ en.res.ok
        /\ en.res.flag = FALSE
        /\ RowsOf(en.before, Upper) # {}

----------------------------------------------------------------------------
(* C6 *)

\* C6: subscribe with an email that is empty, all whitespace or without
\* '@' fails with one of the two validation errors, issues no repository
\* call and leaves the table unchanged.
C6_SubscribeValidation ==
    \A en \in Entries :
        (/\ en.req.op = "subscribe"
         /\ AllWhitespace(en.req.emails[1]) \/ ~HasAt(en.req.emails[1]))
        => /\ ~en.res.ok
           /\ en.res.err \in {ErrEmpty, ErrFormat}
           /\ en.calls = 0
           /\ en.after = en.before
           /\ table = en.before

\* subscribe("a") was refused on a table that has a row
C6_Witness ==
    \E en \in Entries :
        /\ en.req = Single("subscribe", NoAt)
        /\ en.res.err = ErrFormat
        /\ en.before # {}

----------------------------------------------------------------------------
(* C7 *)

\* what a caller of the Service gets in Err(..): Result<()> is
\* anyhow::Result<()>, so the kind of every error is anyhow::Error
Kind(err) == err.ty

\* C7: the error subscribe or unsubscribe returns for invalid input is of
\* a kind other than the kind of the error returned when the pool or the
\* query fails.
C7_ValidationErrorKindDistinct ==
    \A en \in Entries :
        (en.req.op \in {"subscribe", "unsubscribe"} /\ ~en.res.ok /\ en.calls = 0)
        => Kind(en.res.err) \notin {Kind(ErrPool), Kind(ErrQuery)}

----------------------------------------------------------------------------
(* C8 *)

\* the table after the per-email step was applied for the emails in S and
\* for no other
Applied(before, after, S, active) ==
    IF active
    THEN /\ before \subseteq after
         /\ EmailsIn(after) = EmailsIn(before) \cup S
         /\ \A r \in after \ before : r.active
         /\ \A r, q \in after : r.email = q.email => r = q
    ELSE after = {r \in before : r.email \notin S}

\* C8: update_subscription_status works through its emails in list order;
\* when the add or delete of position i fails, the call returns that
\* error, the steps of positions 1..i-1 stay applied, and nothing is done
\* for the positions after i.
C8_UpdateAbortsOnFirstError ==
    \A en \in Entries :
        (en.req.op = "update_subscription_status" /\ ~en.res.ok)
        => /\ Fault(en)
           /\ en.calls \in 1..Len(en.req.emails)
           /\ Applied(en.before, en.after,
                      Listed(en.req.emails, en.calls - 1), en.req.active)
           /\ table = en.after

\* update_subscription_status([Lower, Upper], true) on the empty table
\* failed at its second email
C8_Witness ==
    \E en \in Entries :
        /\ en.req = Req("update_subscription_status", <<Lower, Upper>>, TRUE)
        /\ ~en.res.ok
        /\ en.calls = 2
        /\ en.before = {}
        /\ EmailsIn(en.after) = {Lower}

----------------------------------------------------------------------------
(* C9 *)

\* C9: delete_subscriptions deletes in list order: when it returns Ok no
\* listed email has a row and every other row is as before; when the
\* delete of position i fails, that error is returned, the rows of
\* positions 1..i-1 are gone and all other rows are as before.
C9_DeleteSubscriptions ==
    \A en \in Entries :
        en.req.op = "delete_subscriptions"
        => /\ table = en.after
           /\ en.res.ok
                => Applied(en.before, en.after,
                           Listed(en.req.emails, Len(en.req.emails)), FALSE)
           /\ ~en.res.ok
                => /\ Fault(en)
                   /\ en.calls \in 1..Len(en.req.emails)
                   /\ Applied(en.before, en.after,
                              Listed(en.req.emails, en.calls - 1), FALSE)

\* delete_subscriptions([Lower, Upper]) on a table with both rows failed
\* at its second email
C9_Witness ==
    \E en \in Entries :
        /\ en.req = Req("delete_subscriptions", <<Lower, Upper>>, TRUE)
        /\ ~en.res.ok
        /\ en.calls = 2
        /\ EmailsIn(en.before) = {Lower, Upper}
        /\ EmailsIn(en.after) = {Upper}

----------------------------------------------------------------------------
(* C10 *)

\* C10: after update_subscription_status(emails, true) returns Ok, every
\* listed email has a row with active = true and list() shows it so; after
\* update_subscription_status(emails, false) returns Ok, no listed email
\* has a row or an item of list().
C10_BulkUpdateResult ==
    (/\ Len(log) >= 1
     /\ log[1].req.op = "update_subscription_status"
     /\ log[1].res.ok)
    => LET es == log[1].req.emails
           S == Listed(es, Len(es))
       IN  /\ log[1].req.active
                => \A e \in S : \E r \in RowsOf(log[1].after, e) : r.active
           /\ ~log[1].req.active
                => \A e \in S : RowsOf(log[1].after, e) = {}
           /\ (Len(log) = 3 /\ log[3].res.ok)
                => LET items == log[3].res.items
                   IN  \A e \in S :
                          IF log[1].req.active
                          THEN \E i \in DOMAIN items :
                                  items[i] = [email |-> e, active |-> TRUE]
                          ELSE \A i \in DOMAIN items : items[i].email # e

\* update_subscription_status([Lower, Upper], true) on the empty table,
\* then list() returned both
C10_Witness ==
    /\ Len(log) = 3
    /\ log[1].req = Req("update_subscription_status", <<Lower, Upper>>, TRUE)
    /\ log[1].res.ok
    /\ log[1].before = {}
    /\ log[3].res.ok
    /\ Len(log[3].res.items) = 2

----------------------------------------------------------------------------
(* C11 *)

\* C11: list() returns the rows in strictly descending id: of two listed
\* emails the one whose row has the larger id (the later insert) comes
\* first.  Around a successful subscribe(e): when e had a row the list is
\* the same before and after (a duplicate subscribe moves nothing), and
\* when e had none the new list is e, active, followed by the old list.
C11_ListOrdering ==
    /\ \A en \in Entries :
          (en.req.op = "list_newsletters" /\ en.res.ok)
          => \A i, j \in DOMAIN en.res.items :
                i < j => \E r, s \in en.before :
                            /\ r.email = en.res.items[i].email
                            /\ s.email = en.res.items[j].email
                            /\ r.id > s.id
    /\ (/\ Len(log) = 3
        /\ log[1].req.op = "list_newsletters"
        /\ log[2].req.op = "subscribe"
        /\ log[3].req.op = "list_newsletters"
        /\ \A i \in 1..3 : log[i].res.ok)
       => LET e == log[2].req.emails[1]
          IN  IF RowsOf(log[1].before, e) # {}
              THEN log[3].res.items = log[1].res.items
              ELSE log[3].res.items =
                       <<[email |-> e, active |-> TRUE]>> \o log[1].res.items

\* two rows listed, subscribe(Lower) inserts a third, and the second list
\* has Lower first
C11_Witness ==
    /\ Len(log) = 3
    /\ log[1].req.op = "list_newsletters"
    /\ Len(log[1].res.items) = 2
    /\ log[2].req = Single("subscribe", Lower)
    /\ log[2].res.ok
    /\ log[3].res.ok
    /\ Len(log[3].res.items) = 3
    /\ log[3].res.items[1].email = Lower
----------------------------------------------------------------------------
(* C12 *)

\* C12: list_newsletters() returns what the repository list returns: every
\* stored row appears exactly once with its email and active value, nothing
\* appears that is not stored, and the length is the number of rows.
C12_ListComplete ==
    \A en \in Entries :
        (en.req.op = "list_newsletters" /\ en.res.ok)
        => /\ Len(en.res.items) = Cardinality(en.before)
           /\ \A r \in en.before :
                 Cardinality({i \in DOMAIN en.res.items :
                                 en.res.items[i] = Newsletter(r)}) = 1
           /\ \A i \in DOMAIN en.res.items :
                 \E r \in en.before : en.res.items[i] = Newsletter(r)

\* a list of three rows, one of them stored by a batch for a blank email
C12_Witness ==
    \E en \in Entries :
        /\ en.req.op = "list_newsletters"
        /\ en.res.ok
        /\ Len(en.res.items) = 3
        /\ \E i \in 1..3 : en.res.items[i].email = Blank1
----------------------------------------------------------------------------
(* C13 *)

\* C13: when two or more subscribe calls for one valid email run at once,
\* in any interleaving of their pool.get() and query steps, every call
\* that meets no pool or query failure returns Ok, the table never holds
\* more than one row for the email, and once all calls have returned and
\* one of them returned Ok it holds exactly one: the insert with its
\* conflict check is one storage step.
C13_ConcurrentSubscribe ==
    (/\ Entries # {}
     /\ \A en \in Entries : en.req.op = "subscribe")
    => LET e == log[1].req.emails[1]
       IN  (~AllWhitespace(e) /\ HasAt(e))
           => /\ \A en \in Entries : ~Fault(en) => en.res.ok
              /\ Cardinality(RowsOf(table, e)) <= 1
              /\ (AllReturned /\ \E en \in Entries : en.res.ok)
                    => Cardinality(RowsOf(table, e)) = 1

\* every caller began subscribe(Lower) while there was no row for Lower,
\* all returned Ok and one row is there
C13_Witness ==
    /\ AllReturned
    /\ Len(log) = NTasks
    /\ \A en \in Entries :
          /\ en.req = Single("subscribe", Lower)
          /\ en.res.ok
          /\ RowsOf(en.before, Lower) = {}
    /\ \A t \in Tasks : \E en \in Entries : en.task = t
    /\ Cardinality(RowsOf(table, Lower)) = 1
----------------------------------------------------------------------------
(* C14 *)

\* C14: starting from an empty table, with every call returning Ok:
\* after subscribe(e), get_subscription_status(e) is true and list() has
\* one entry; after the unsubscribe(e) that follows,
\* get_subscription_status(e) is false and list() has none.
C14_EndToEnd ==
    \A e \in Emails :
        (/\ log # <<>>
         /\ Len(log) <= 6
         /\ \A i \in DOMAIN log : log[i].req = EndToEnd(e)[i] /\ log[i].res.ok
         /\ log[1].before = {})
        => /\ Len(log) >= 2 => log[2].res.flag = TRUE
           /\ Len(log) >= 3 => Len(log[3].res.items) = 1
           /\ Len(log) >= 5 => log[5].res.flag = FALSE
           /\ Len(log) >= 6 => Len(log[6].res.items) = 0

\* the six calls for Lower, from the empty table, all Ok
C14_Witness ==
    /\ Len(log) = 6
    /\ \A i \in 1..6 : log[i].req = EndToEnd(Lower)[i] /\ log[i].res.ok
    /\ log[1].before = {}
    /\ log[6].after = {}
----------------------------------------------------------------------------
(* C15 *)

\* C15: unsubscribe of a blank email (empty or whitespace only) returns
\* the "Email cannot be empty" error with no repository call made and the
\* table unchanged; unsubscribe of any other email, one without '@'
\* included, makes the one repository delete call, which without a pool
\* or query failure returns Ok and removes the email's rows.
C15_UnsubscribeValidation ==
    \A en \in Entries :
        en.req.op = "unsubscribe"
        => LET e == en.req.emails[1]
           IN  IF AllWhitespace(e)
               THEN /\ ~en.res.ok
                    /\ en.res.err = ErrEmpty
                    /\ en.calls = 0
                    /\ en.after = en.before
               ELSE /\ en.calls = 1
                    /\ ~Fault(en)
                          => /\ en.res.ok
                             /\ en.after = en.before \ RowsOf(en.before, e)

\* unsubscribe of "a", which has no '@', reached the repository delete
C15_Witness ==
    \E en \in Entries :
        /\ en.req = Single("unsubscribe", NoAt)
        /\ en.res.ok
        /\ en.calls = 1
        /\ en.before # {}
----------------------------------------------------------------------------
(* C16 *)

\* C16: RPC Subscribe(email) and RPC Unsubscribe(email) succeed and change
\* the table exactly when Service subscribe(email) and unsubscribe(email)
\* would: an RPC whose email the Service's validation rejects (blank, or
\* for Subscribe without '@') returns an error and leaves the table as it
\* was.
C16_RpcAsService ==
    \A en \in Entries :
        en.req.op \in {"rpc.subscribe", "rpc.un_subscribe"}
        => LET op == IF en.req.op = "rpc.subscribe"
                     THEN "subscribe" ELSE "unsubscribe"
               sv == Single(op, en.req.emails[1])
           IN  Validate(sv) # NoErr
               => /\ ~en.res.ok
                  /\ en.after = en.before
----------------------------------------------------------------------------
(* C17 *)

\* C17: in every state reached through subscribe, unsubscribe,
\* update_subscription_status and delete_subscriptions every stored row
\* has active = true, so a get_subscription_status(email) that returns Ok
\* returns true exactly when the email has a row.
C17_NoInactiveRow ==
    /\ \A r \in table : r.active
    /\ \A en \in Entries :
          (en.req.op = "get_subscription_status" /\ en.res.ok)
          => (en.res.flag <=> RowsOf(en.before, en.req.emails[1]) # {})

\* an unsubscribe has removed Lower's row and other rows are left
C17_Witness ==
    \E en \in Entries :
        /\ en.req = Single("unsubscribe", Lower)
        /\ en.res.ok
        /\ RowsOf(en.before, Lower) # {}
        /\ RowsOf(table, Lower) = {}
        /\ table # {}
----------------------------------------------------------------------------
(* C18 *)

\* C18: the repository add never changes an existing row: whatever a
\* call that adds did (subscribe, RPC Subscribe, update_subscription_status
\* with active = true), every row that was there before, active or not, is
\* there afterwards with the same id, active and created_at; and an add
\* for an email that has a row, met by no pool or query failure, returns Ok.
C18_AddKeepsExistingRow ==
    \A en \in Entries :
        RepoOp(en.req) = "add"
        => /\ en.before \subseteq en.after
           /\ \A e \in Listed(en.req.emails, en.calls) :
                 RowsOf(en.before, e) # {}
                 => RowsOf(en.after, e) = RowsOf(en.before, e)
           /\ (/\ en.calls = 1
               /\ Len(en.req.emails) = 1
               /\ RowsOf(en.before, en.req.emails[1]) # {}
               /\ ~Fault(en)
               /\ ~RpcFault(en))
              => en.res.ok

\* subscribe(Lower) returned Ok on a table where Lower's row is inactive
\* and older than the clock, and the table is as it was
C18_Witness ==
    \E en \in Entries :
        /\ en.req = Single("subscribe", Lower)
        /\ en.res.ok
        /\ \E r \in RowsOf(en.before, Lower) : ~r.active /\ r.created_at < now
        /\ en.after = en.before
----------------------------------------------------------------------------
(* C19 *)

\* C19: every repository operation holds exactly one connection while its
\* query runs and none before or after, whichever way it returns: the
\* connections out are one per caller whose query is running (and one per
\* further caller counted in others); they never number more than the
\* pool maximum of 16; and when every caller has returned none is out.
C19_CheckoutDiscipline ==
    /\ inUse = Cardinality(Holders) + others
    /\ inUse <= PoolMax
    /\ inUse <= 16
    /\ (others = 0 /\ \A t \in Tasks : task[t].pc = "idle") => inUse = 0

\* all 16 connections are out, one caller runs its query and another
\* waits in pool.get()
C19_Witness ==
    /\ inUse = PoolMax
    /\ \E t \in Tasks : task[t].pc = "query"
    /\ \E t \in Tasks : task[t].pc = "acquire"
----------------------------------------------------------------------------
(* C20 *)

\* C20: when the pool.get() of a repository call fails, no statement is
\* sent for that call, the call's error is returned (an error, not the Ok
\* that an absent row or a no-op gives), and the table is as the earlier
\* repository calls of the request left it: unchanged for a request of
\* one repository call.
C20_AcquireFailure ==
    \A en \in Entries :
        en.queries < en.calls
        => /\ en.queries = en.calls - 1
           /\ ~en.res.ok
           /\ en.res.err = ErrPool
           /\ en.res # StatusResult({})
           /\ en.res # DeleteResult(0)
           /\ IF RepoOp(en.req) \in {"add", "delete"}
              THEN Applied(en.before, en.after,
                           Listed(en.req.emails, en.calls - 1),
                           RepoOp(en.req) = "add")
              ELSE en.after = en.before
           /\ en.calls = 1 => en.after = en.before

\* get_subscription_status(Lower), with no row for Lower, failed in
\* pool.get()
C20_Witness ==
    \E en \in Entries :
        /\ en.req = Single("get_subscription_status", Lower)
        /\ en.calls = 1
        /\ en.queries = 0
        /\ en.res = Err(ErrPool)
        /\ RowsOf(en.before, Lower) = {}
        /\ en.before # {}
----------------------------------------------------------------------------
(* C21 *)

\* C21: when a repository call made by a Service operation fails, the
\* operation returns that error as it is (the pool error when pool.get()
\* failed, the query error when the statement failed) and makes no further
\* repository call: the failed call is its last, every email got at most
\* one call and every call at most one statement.
C21_ErrorPropagation ==
    \A en \in Entries :
        /\ en.calls <= NCalls(en.req)
        /\ en.queries <= en.calls
        /\ (~en.res.ok /\ en.calls >= 1)
           => \/ en.queries = en.calls - 1 /\ en.res.err = ErrPool
              \/ en.queries = en.calls /\ en.res.err = ErrQuery

\* delete_subscriptions([Lower, Upper]) returned the query error of its
\* second delete
C21_Witness ==
    \E en \in Entries :
        /\ en.req = Req("delete_subscriptions", <<Lower, Upper>>, TRUE)
        /\ en.res = Err(ErrQuery)
        /\ en.calls = 2
        /\ en.queries = 2
----------------------------------------------------------------------------
(* C22 *)

\* C22: subscribe(e), unsubscribe(e) and each per-email step of the batch
\* operations touch only the row of their email: the rows of all emails a
\* call made no repository call for are the same rows afterwards and
\* list() shows them in the same order; a step that failed changed no
\* row, so a failed single-email call leaves the table as it was and a
\* failed batch leaves the rows of its failed email as they were.
C22_SingleEmailFrame ==
    \A en \in Entries :
        RepoOp(en.req) \in {"add", "delete"}
        => LET S == Listed(en.req.emails, en.calls)
               P == Listed(en.req.emails, en.calls - 1)
           IN  /\ RowsOutside(en.after, S) = RowsOutside(en.before, S)
               /\ ListOutside(en.after, S) = ListOutside(en.before, S)
               /\ (~en.res.ok /\ en.calls >= 1)
                  => /\ RowsOutside(en.after, P) = RowsOutside(en.before, P)
                     /\ ListOutside(en.after, P) = ListOutside(en.before, P)
               /\ (~en.res.ok /\ en.calls <= 1) => en.after = en.before

\* unsubscribe(Lower) removed Lower's row from between two other rows
C22_Witness ==
    \E en \in Entries :
        /\ en.req = Single("unsubscribe", Lower)
        /\ en.res.ok
        /\ Cardinality(en.before) = 3
        /\ \E r \in RowsOf(en.before, Lower) : r.id = 2
        /\ Cardinality(en.after) = 2
----------------------------------------------------------------------------
(* C23 *)

\* C23: subscribe(e) after a successful unsubscribe(e) creates a fresh
\* row: its id is above every id the table had, it is active, the
\* get_subscription_status(e) that follows is true and the list() that
\* follows has e first.
C23_Resubscribe ==
    \A e \in Emails :
        (/\ Len(log) >= 2
         /\ Len(log) <= 4
         /\ \A i \in DOMAIN log : log[i].req = Resubscribe(e)[i] /\ log[i].res.ok)
        => /\ Cardinality(RowsOf(log[2].after, e)) = 1
           /\ \A r \in RowsOf(log[2].after, e) :
                 /\ r.active
                 /\ \A x \in log[1].before : r.id > x.id
           /\ Len(log) >= 3 => log[3].res.flag = TRUE
           /\ Len(log) >= 4 => /\ log[4].res.items # <<>>
                               /\ log[4].res.items[1].email = e

\* Lower had the oldest of two rows, was unsubscribed and subscribed
\* again, and is now listed first
C23_Witness ==
    /\ Len(log) = 4
    /\ \A i \in 1..4 : log[i].req = Resubscribe(Lower)[i] /\ log[i].res.ok
    /\ \E r \in RowsOf(log[1].before, Lower) : r.id = 1
    /\ Cardinality(log[1].before) = 2
    /\ Len(log[4].res.items) = 2
    /\ log[4].res.items[1].email = Lower
----------------------------------------------------------------------------
(* C24 *)

\* C24: on any table, RPC Get(email) asked right after
\* get_subscription_status(email) returns the requested email with the
\* active value the Service returned; and RPC Get of an email that has no
\* row, met by no pool or query failure, is a successful response with
\* active = false.
C24_RpcGetAgrees ==
    /\ \A e \in Emails :
          (/\ Len(log) = 2
           /\ log[1].req = Single("get_subscription_status", e)
           /\ log[2].req = Single("rpc.get", e)
           /\ log[1].res.ok
           /\ log[2].res.ok)
          => /\ log[2].res.flag = log[1].res.flag
             /\ log[2].res.items = <<[email |-> e, active |-> log[1].res.flag]>>
    /\ \A en \in Entries :
          (/\ en.req.op = "rpc.get"
           /\ RowsOf(en.before, en.req.emails[1]) = {}
           /\ ~RpcFault(en))
          => en.res = GetResponse(en.req.emails[1], FALSE)

\* both say true for Lower, on a table that also holds an inactive row
C24_Witness ==
    /\ Len(log) = 2
    /\ log[1].req = Single("get_subscription_status", Lower)
    /\ log[2].req = Single("rpc.get", Lower)
    /\ log[1].res.ok
    /\ log[2].res.ok
    /\ log[2].res.flag
    /\ \E r \in table : ~r.active
----------------------------------------------------------------------------
(* C25 *)

\* C25: unsubscribe(e), update_subscription_status(emails, active) and
\* delete_subscriptions(emails) are idempotent: from any table, when the
\* same call is made twice in a row and both return Ok, the table after
\* the second is the table after the first, also when the list names an
\* email more than once.
C25_MutationsIdempotent ==
    (/\ Len(log) = 2
     /\ log[1].req = log[2].req
     /\ log[1].req.op \in {"unsubscribe", "update_subscription_status",
                           "delete_subscriptions"}
     /\ log[1].res.ok
     /\ log[2].res.ok)
    => /\ log[2].before = log[1].after
       /\ log[2].after = log[1].after

\* update_subscription_status([Lower, Lower], true) twice, on a table
\* that had no row for Lower
C25_Witness ==
    /\ Len(log) = 2
    /\ log[1].req = Req("update_subscription_status", <<Lower, Lower>>, TRUE)
    /\ log[2].req = log[1].req
    /\ log[1].res.ok
    /\ log[2].res.ok
    /\ RowsOf(log[1].before, Lower) = {}
    /\ log[1].before # {}
----------------------------------------------------------------------------
(* C26 *)

\* C26: created_at is written only when a row is inserted: whatever a
\* call did (a duplicate subscribe, a status lookup, a list, a bulk
\* update, an RPC), a row that was there before and is there afterwards
\* has the created_at it had, and a row that is new has the reading of the
\* clock at its insert.
C26_CreatedAtOnInsertOnly ==
    \A en \in Entries :
        /\ \A r \in en.before : \A x \in en.after :
              x.id = r.id => x.created_at = r.created_at
        /\ \A x \in en.after :
              (\A r \in en.before : r.id # x.id) => x.created_at \in 1..now

\* update_subscription_status([Lower, Upper], true) at clock 2 met
\* Lower's row of clock 1 and inserted Upper's
C26_Witness ==
    \E en \in Entries :
        /\ en.req = Req("update_subscription_status", <<Lower, Upper>>, TRUE)
        /\ en.res.ok
        /\ \E r \in RowsOf(en.before, Lower) : r.created_at = 1
        /\ RowsOf(en.before, Upper) = {}
        /\ \E x \in RowsOf(en.after, Upper) : x.created_at = 2
        /\ \E x \in RowsOf(en.after, Lower) : x.created_at = 1
----------------------------------------------------------------------------
(* C27 *)

\* C27: a batch holds nothing across its per-email steps: while one
\* caller is between two steps of a batch it holds no connection, and any
\* other caller that waits for a connection can get one and go on, so
\* other calls interleave with the batch (the witness is such a run: both
\* batches return Ok, the list sees the first email only, and the table
\* ends with one of the two emails).
C27_BatchNotAtomic ==
    \A t \in Tasks :
        BetweenSteps(t)
        => /\ t \notin Holders
           /\ \A u \in Tasks \ {t} :
                 task[u].pc = "acquire" => ENABLED AcquireOk(u)

\* update_subscription_status([Lower, Upper], true) and (.., false) both
\* began on the empty table and returned Ok, a list() made meanwhile saw
\* Lower alone, and the table ends with Upper alone
C27_Witness ==
    /\ AllReturned
    /\ Len(log) = 3
    /\ \A en \in Entries : en.res.ok
    /\ \E en \in Entries :
          /\ en.req = Req("update_subscription_status", <<Lower, Upper>>, TRUE)
          /\ en.before = {}
    /\ \E en \in Entries :
          /\ en.req = Req("update_subscription_status", <<Lower, Upper>>, FALSE)
          /\ en.before = {}
    /\ \E en \in Entries :
          /\ en.req.op = "list_newsletters"
          /\ en.res.items = <<[email |-> Lower, active |-> TRUE]>>
    /\ EmailsIn(table) = {Upper}
----------------------------------------------------------------------------
(* C28 *)

\* C28: no deadlock on the pool: with more requests in flight than the
\* pool has connections, fair scheduling and queries that finish, every
\* request eventually returns, Ok, and every connection is back in the
\* pool.
C28_NoPoolDeadlock ==
    <>(/\ AllReturned
       /\ Len(log) = NTasks
       /\ \A en \in Entries : en.res.ok
       /\ inUse = 0
       /\ others = 0)

\* every connection is out and every caller waits in pool.get()
C28_Witness ==
    /\ inUse = PoolMax
    /\ others = PoolMax
    /\ todo = <<>>
    /\ \A t \in Tasks : task[t].pc = "acquire"
----------------------------------------------------------------------------
(* C29 *)

\* C29: emails are matched letter for letter: for two emails that differ
\* only in case, a subscribe or unsubscribe of one leaves the rows of the
\* other as they were, a successful subscribe leaves a row with exactly
\* its own email, a successful unsubscribe leaves none with it, and
\* get_subscription_status looks at the row with exactly its email.
C29_LiteralEmail ==
    \A en \in Entries : \A e, o \in {Lower, Upper} :
        (en.req.emails = <<e>> /\ o # e)
        => /\ en.req.op \in {"subscribe", "unsubscribe"}
              => {r \in en.after : r.email = o} = {r \in en.before : r.email = o}
           /\ (en.req.op = "subscribe" /\ en.res.ok)
              => \E r \in en.after : r.email = e
           /\ (en.req.op = "unsubscribe" /\ en.res.ok)
              => \A r \in en.after : r.email # e
           /\ (en.req.op = "get_subscription_status" /\ en.res.ok)
              => (en.res.flag <=> \E r \in en.before : r.email = e /\ r.active)

\* subscribe("A@") on a table that held "a@" and not "A@": both are stored
C29_Witness ==
    \E en \in Entries :
        /\ en.req = Single("subscribe", Upper)
        /\ en.res.ok
        /\ \E r \in en.before : r.email = Lower
        /\ \A r \in en.before : r.email # Upper
        /\ \E r \in en.after : r.email = Lower
        /\ \E r \in en.after : r.email = Upper
----------------------------------------------------------------------------
(* C30 *)

\* C30: demo_functionality(test_email) makes its five calls whatever
\* each returns and then returns Ok with a log of the five steps; when
\* test_email is valid and no call met a pool or query failure,
\* test_email has no row afterwards, whether or not it had one before,
\* and the rows of all other emails are as they were.
C30_DemoFunctionality ==
    \A e \in Emails :
        (/\ Len(log) = 6
         /\ log[6].req = Req("demo_functionality", <<e>>, TRUE))
        => /\ log[6].res.ok
           /\ Len(log[6].res.items) = 5
           /\ \A i \in 1..5 : log[6].res.items[i] = log[i].res.ok
           /\ (/\ ~AllWhitespace(e)
               /\ HasAt(e)
               /\ \A i \in 1..5 : ~Fault(log[i]))
              => /\ \A i \in 1..5 : log[i].res.ok
                 /\ \A r \in log[6].after : r.email # e
                 /\ RowsOutside(log[6].after, {e})
                       = RowsOutside(log[6].before, {e})

\* the demo returned for Lower, which was subscribed before, with every
\* step Ok: Lower's row is gone and the other row is left
C30_Witness ==
    /\ Len(log) = 6
    /\ log[6].req = Req("demo_functionality", <<Lower>>, TRUE)
    /\ \A i \in 1..5 : log[i].res.ok
    /\ \E r \in log[6].before : r.email = Lower
    /\ \E r \in log[6].before : r.email = Upper
    /\ EmailsIn(log[6].after) = {Upper}
====
